---- MODULE Spec2Model ----
(***************************************************************************)
(* Model of autobuild's archive layer (autobuild/archive_utils.py) and of  *)
(* the archive filename decomposer split_tarname (autobuild/common.py).    *)
(*                                                                         *)
(* Strings and byte strings are sequences: a filename is a sequence of     *)
(* one-character strings, a file's content a sequence of byte values.      *)
(* Calls into tarfile, zipfile and pyzstd are library calls: each is       *)
(* recorded in the call log `calls` together with whether it returned or   *)
(* raised, and which of the two happens is chosen nondeterministically,    *)
(* except that close() on a library object that is already closed returns  *)
(* without effect (io.IOBase.close, tarfile.TarFile.close).                *)
(***************************************************************************)
EXTENDS Integers, Sequences, FiniteSets, TLC

VARIABLES
    hstate,     \* ZstdTarFile object: "unbuilt", "open" (constructed), "failed" (constructor raised)
    zstdoption, \* local zstdoption of __init__: "None" or "set"
    zstdOpen,   \* whether the ZstdFile resource self.zstd_file is open
    tarOpen,    \* whether the TarFile base object is open
    calls,      \* log of library calls made so far, in order: [op, ok]
    raised,     \* the exception that left the last operation, NoError when it returned
    lastOp,     \* the last operation run: "none", "init", "close", "detect", "open", "split"
    nclose,     \* number of ZstdTarFile.close() calls made
    fname,      \* the filename argument of detect_archive_type / open_archive
    fexists,    \* whether a readable file of that name exists
    fbytes,     \* that file's content
    nopen,      \* number of open(filename, "rb") calls made by the detector
    nread,      \* number of bytes the detector has read from the file
    f_type,     \* the value returned by detect_archive_type (None when it raised)
    ext_type,   \* the value returned by _archive_type_from_extension, Unset before the call
    sig_type,   \* the value returned by _archive_type_from_signature, Unset before the call
    backing,    \* the reader open_archive went for: "ZstdTarFile", "ZipFile", "tarfile.open"
    pathname,   \* the argument of split_tarname
    sresult     \* what split_tarname returned: [dir, fileparts, ext], or NoResult

vars == <<hstate, zstdoption, zstdOpen, tarOpen, calls, raised, lastOp, nclose,
          fname, fexists, fbytes, nopen, nread, f_type, ext_type, sig_type, backing,
          pathname, sresult>>

hvars == <<hstate, zstdoption, zstdOpen, tarOpen, calls, nclose>>
dvars == <<fname, fexists, fbytes, nopen, nread, f_type, ext_type, sig_type, backing>>
svars == <<pathname, sresult>>

----------------------------------------------------------------------------
(* Bounds of the model *)

\* how many times close() is called on one handle
MaxCloses == 4

\* length of the part of a filename in front of its ending
MaxStemLen == 1

\* number of bytes a file holds after its leading (partial) signature
MaxTailLen == 2

\* length of the pathnames split_tarname is called on
MaxPathLen == 7

----------------------------------------------------------------------------
(* Values *)

None == "None"
Unset == "Unset"
NoError == "NoError"
ZstdOpenError == "ZstdOpenError"
TarInitError == "TarInitError"
TarCloseError == "TarCloseError"
ZstdCloseError == "ZstdCloseError"
IOError == "IOError"
AutobuildError == "AutobuildError"

Modes == {"r", "rb", "w"}

Call(op, ok) == [op |-> op, ok |-> ok]

----------------------------------------------------------------------------
(* class ZstdTarFile(tarfile.TarFile) *)

\* __init__: zstdoption stays None only for the exact read markers
zstdoption_for(mode) == IF mode # "r" /\ mode # "rb" THEN "set" ELSE None

init_calls_noclose(zOk, tOk, cOk) ==
    IF ~zOk THEN <<Call("ZstdFile", FALSE)>>
    ELSE <<Call("ZstdFile", TRUE), Call("TarFile.__init__", tOk)>>

\* __init__: the library calls it makes. zOk: ZstdFile(...) returns; tOk:
\* super().__init__ returns; cOk: zstd_file.close() in the except clause returns
init_calls(zOk, tOk, cOk) ==
    IF ~zOk THEN <<Call("ZstdFile", FALSE)>>
    ELSE IF tOk THEN <<Call("ZstdFile", TRUE), Call("TarFile.__init__", TRUE)>>
    ELSE <<Call("ZstdFile", TRUE), Call("TarFile.__init__", FALSE),
           Call("zstd_file.close", cOk)>>

\* __init__: the exception that leaves it. An exception raised by
\* zstd_file.close() inside the except clause replaces the one being handled:
\* the bare raise after it is not reached
init_raised(zOk, tOk, cOk) ==
    IF ~zOk THEN ZstdOpenError
    ELSE IF tOk THEN NoError
    ELSE IF cOk THEN TarInitError
    ELSE ZstdCloseError

\* __init__: self.zstd_file afterwards. stillOpen: whether a close() that
\* raised left the resource open, which is the library's choice
init_zstdOpen(zOk, tOk, cOk, stillOpen) ==
    IF ~zOk THEN FALSE
    ELSE IF tOk THEN TRUE
    ELSE IF cOk THEN FALSE
    ELSE stillOpen

ZstdTarFile_init(mode, zOk, tOk, cOk, stillOpen) ==
    /\ zstdoption' = zstdoption_for(mode)
    /\ calls' = calls \o init_calls(zOk, tOk, cOk)
    /\ raised' = init_raised(zOk, tOk, cOk)
    /\ zstdOpen' = init_zstdOpen(zOk, tOk, cOk, stillOpen)
    /\ tarOpen' = (zOk /\ tOk)
    /\ hstate' = IF init_raised(zOk, tOk, cOk) = NoError THEN "open" ELSE "failed"

close_calls_nofinally(tOk, cOk) ==
    IF tOk THEN <<Call("TarFile.close", TRUE), Call("zstd_file.close", cOk)>>
    ELSE <<Call("TarFile.close", FALSE)>>

\* close: try: super().close()  finally: self.zstd_file.close()
close_calls(tOk, cOk) ==
    <<Call("TarFile.close", tOk), Call("zstd_file.close", cOk)>>

close_raised_first(tOk, cOk) ==
    IF ~tOk THEN TarCloseError
    ELSE IF ~cOk THEN ZstdCloseError
    ELSE NoError

\* close: an exception raised in the finally clause replaces the one in flight
close_raised(tOk, cOk) ==
    IF ~cOk THEN ZstdCloseError
    ELSE IF ~tOk THEN TarCloseError
    ELSE NoError

ZstdTarFile_close_guarded(tOk, cOk, tarStill, stillOpen) ==
    /\ calls' = IF nclose = 0 THEN calls \o close_calls(tOk, cOk) ELSE calls
    /\ raised' = IF nclose = 0 THEN close_raised(tOk, cOk) ELSE NoError
    /\ tarOpen' = IF nclose > 0 THEN tarOpen ELSE IF tOk THEN FALSE ELSE tarOpen /\ tarStill
    /\ zstdOpen' = IF nclose > 0 THEN zstdOpen ELSE IF cOk THEN FALSE ELSE zstdOpen /\ stillOpen
    /\ nclose' = nclose + 1
    /\ UNCHANGED <<hstate, zstdoption>>

\* close: a call that returns leaves its object closed; tarStill, stillOpen:
\* whether a call that raised left its object open, which is the library's choice
ZstdTarFile_close(tOk, cOk, tarStill, stillOpen) ==
    /\ calls' = calls \o close_calls(tOk, cOk)
    /\ raised' = close_raised(tOk, cOk)
    /\ tarOpen' = IF tOk THEN FALSE ELSE tarOpen /\ tarStill
    /\ zstdOpen' = IF cOk THEN FALSE ELSE zstdOpen /\ stillOpen
    /\ nclose' = nclose + 1
    /\ UNCHANGED <<hstate, zstdoption>>

\* whether a library close() call returns: either way on an open object,
\* always on a closed one
CloseReturns(isOpen) == IF isOpen THEN BOOLEAN ELSE {TRUE}

----------------------------------------------------------------------------
(* A ZstdTarFile handle: constructed once, then closed any number of times *)

InitCommon ==
    /\ hstate = "unbuilt"
    /\ zstdoption = None
    /\ zstdOpen = FALSE
    /\ tarOpen = FALSE
    /\ calls = <<>>
    /\ raised = NoError
    /\ lastOp = "none"
    /\ nclose = 0
    /\ f_type = None
    /\ ext_type = Unset
    /\ sig_type = Unset
    /\ backing = None
    /\ nopen = 0
    /\ nread = 0
    /\ sresult = [ok |-> FALSE, dir |-> <<>>, fileparts |-> <<>>, ext |-> <<>>]

InitHandle ==
    /\ InitCommon
    /\ fname = <<>>
    /\ fexists = FALSE
    /\ fbytes = <<>>
    /\ pathname = <<>>

Construct ==
    /\ hstate = "unbuilt"
    /\ \E mode \in Modes, zOk \in BOOLEAN, tOk \in BOOLEAN, cOk \in BOOLEAN, stillOpen \in BOOLEAN :
          ZstdTarFile_init(mode, zOk, tOk, cOk, stillOpen)
    /\ lastOp' = "init"
    /\ UNCHANGED <<nclose, dvars, svars>>

Close ==
    /\ hstate = "open"
    /\ nclose < MaxCloses
    /\ \E tOk \in CloseReturns(tarOpen), cOk \in CloseReturns(zstdOpen) :
          \E tarStill \in (IF tOk THEN {FALSE} ELSE BOOLEAN), stillOpen \in (IF cOk THEN {FALSE} ELSE BOOLEAN) :
             ZstdTarFile_close(tOk, cOk, tarStill, stillOpen)
    /\ lastOp' = "close"
    /\ UNCHANGED <<dvars, svars>>

NextHandle == Construct \/ Close

SpecHandle == InitHandle /\ [][NextHandle]_vars

----------------------------------------------------------------------------
(* Strings and byte strings *)

SeqsUpTo(S, n) == UNION {[1..k -> S] : k \in 0..n}

Min(a, b) == IF a <= b THEN a ELSE b

\* str.startswith / bytes.startswith
startswith(s, p) == Len(p) <= Len(s) /\ SubSeq(s, 1, Len(p)) = p

\* str.endswith
endswith(s, p) == Len(p) <= Len(s) /\ SubSeq(s, Len(s) - Len(p) + 1, Len(s)) = p

\* f.read(n): the first n bytes, fewer when the file is shorter
read(content, n) == SubSeq(content, 1, Min(n, Len(content)))

----------------------------------------------------------------------------
(* class ArchiveType, _ARCHIVE_MAGIC_NUMBERS *)

GZ == "gz"
BZ2 == "bz2"
ZIP == "zip"
ZST == "zst"

_ARCHIVE_MAGIC_NUMBERS_overlapping ==
    << [magic |-> <<31, 139, 8>>, f_type |-> GZ],
       [magic |-> <<66, 90, 104>>, f_type |-> BZ2],
       [magic |-> <<80, 75, 3, 4>>, f_type |-> ZIP],
       [magic |-> <<80, 75>>, f_type |-> ZST] >>

\* the dict, in insertion order, which is the order items() iterates in
_ARCHIVE_MAGIC_NUMBERS ==
    << [magic |-> <<31, 139, 8>>, f_type |-> GZ],
       [magic |-> <<66, 90, 104>>, f_type |-> BZ2],
       [magic |-> <<80, 75, 3, 4>>, f_type |-> ZIP],
       [magic |-> <<40, 181, 47, 253>>, f_type |-> ZST] >>

_ARCHIVE_MAGIC_NUMBERS_MAX ==
    CHOOSE n \in {Len(_ARCHIVE_MAGIC_NUMBERS[i].magic) : i \in DOMAIN _ARCHIVE_MAGIC_NUMBERS} :
        \A i \in DOMAIN _ARCHIVE_MAGIC_NUMBERS : Len(_ARCHIVE_MAGIC_NUMBERS[i].magic) <= n

----------------------------------------------------------------------------
(* Format detection.  An operation's outcome is a record: ret, the value  *)
(* returned; exc, the exception raised (NoError when it returned); opens  *)
(* and reads, the open() calls made and the bytes read from the file.     *)

Outcome(ret, exc, opens, reads) == [ret |-> ret, exc |-> exc, opens |-> opens, reads |-> reads]

match_signature_exact(head) ==
    LET hits == {i \in DOMAIN _ARCHIVE_MAGIC_NUMBERS : head = _ARCHIVE_MAGIC_NUMBERS[i].magic}
    IN  IF hits = {} THEN None
        ELSE _ARCHIVE_MAGIC_NUMBERS[CHOOSE i \in hits : \A j \in hits : i <= j].f_type

\* the for loop of _archive_type_from_signature: the first entry, in table
\* order, whose magic head starts with
match_signature(head) ==
    LET hits == {i \in DOMAIN _ARCHIVE_MAGIC_NUMBERS : startswith(head, _ARCHIVE_MAGIC_NUMBERS[i].magic)}
    IN  IF hits = {} THEN None
        ELSE _ARCHIVE_MAGIC_NUMBERS[CHOOSE i \in hits : \A j \in hits : i <= j].f_type

\* open(filename, "rb") raises when there is no readable file of that name
_archive_type_from_signature(exists, content) ==
    IF ~exists THEN Outcome(None, IOError, 1, 0)
    ELSE LET head == read(content, _ARCHIVE_MAGIC_NUMBERS_MAX)
         IN  Outcome(match_signature(head), NoError, 1, Len(head))

_archive_type_from_extension_zst_as_zip(filename) ==
    IF endswith(filename, <<".", "t", "a", "r", ".", "g", "z">>) THEN GZ
    ELSE IF endswith(filename, <<".", "t", "a", "r", ".", "b", "z", "2">>) THEN BZ2
    ELSE IF endswith(filename, <<".", "t", "a", "r", ".", "z", "s", "t">>) THEN ZIP
    ELSE IF endswith(filename, <<".", "z", "i", "p">>) THEN ZIP
    ELSE None

_archive_type_from_extension(filename) ==
    IF endswith(filename, <<".", "t", "a", "r", ".", "g", "z">>) THEN GZ
    ELSE IF endswith(filename, <<".", "t", "a", "r", ".", "b", "z", "2">>) THEN BZ2
    ELSE IF endswith(filename, <<".", "t", "a", "r", ".", "z", "s", "t">>) THEN ZST
    ELSE IF endswith(filename, <<".", "z", "i", "p">>) THEN ZIP
    ELSE None

detect_archive_type_signature_first(filename, exists, content) ==
    LET sig == _archive_type_from_signature(exists, content)
    IN  IF sig.exc = NoError /\ sig.ret # None THEN sig
        ELSE Outcome(_archive_type_from_extension(filename), NoError, sig.opens, sig.reads)

detect_archive_type(filename, exists, content) ==
    LET t == _archive_type_from_extension(filename)
    IN  IF t # None THEN Outcome(t, NoError, 0, 0)
        ELSE _archive_type_from_signature(exists, content)

----------------------------------------------------------------------------
(* open_archive *)

open_backing_reject_none(t) ==
    IF t = ZST THEN "ZstdTarFile"
    ELSE IF t = ZIP THEN "ZipFile"
    ELSE IF t = None THEN None
    ELSE "tarfile.open"

\* the reader open_archive goes for, given the detected type
open_backing(t) ==
    IF t = ZST THEN "ZstdTarFile"
    ELSE IF t = ZIP THEN "ZipFile"
    ELSE "tarfile.open"

\* ok: whether the reader's constructor returns; the outcomes of the
\* ZstdTarFile constructor's own calls are zOk, tOk, cOk, stillOpen
open_archive(filename, exists, content, ok, zOk, tOk, cOk, stillOpen) ==
    LET d == detect_archive_type(filename, exists, content)
    IN  /\ f_type' = d.ret
        /\ nopen' = nopen + d.opens
        /\ nread' = nread + d.reads
        /\ UNCHANGED <<ext_type, sig_type>>
        /\ IF d.exc # NoError
           THEN /\ raised' = d.exc
                /\ backing' = None
                /\ UNCHANGED <<hstate, zstdoption, zstdOpen, tarOpen, calls>>
           ELSE /\ backing' = open_backing(d.ret)
                /\ IF open_backing(d.ret) = "ZstdTarFile"
                   THEN ZstdTarFile_init("r", zOk, tOk, cOk, stillOpen)
                   ELSE /\ calls' = calls \o <<Call(open_backing(d.ret), ok)>>
                        /\ raised' = IF ok THEN NoError ELSE IOError
                        /\ UNCHANGED <<hstate, zstdoption, zstdOpen, tarOpen>>

----------------------------------------------------------------------------
(* A file, and one call of detect_archive_type or open_archive on its name *)

StemChars == {"a", "."}

Endings ==
    { <<>>,
      <<".", "t", "a", "r", ".", "g", "z">>,
      <<".", "t", "a", "r", ".", "b", "z", "2">>,
      <<".", "t", "a", "r", ".", "z", "s", "t">>,
      <<".", "z", "i", "p">>,
      <<".", "t", "a", "r">>,
      <<".", "g", "z">>,
      <<".", "t", "g", "z">>,
      <<".", "b", "z", "2">>,
      <<".", "z", "s", "t">>,
      <<"z", "i", "p">>,
      <<".", "z", "i", "p", "x">>,
      <<".", "t", "a", "r", ".", "g", "z", ".", "b">>,
      <<".", "t", "a", "r", ".", "z", "s">> }

Filenames == {stem \o e : stem \in SeqsUpTo(StemChars, MaxStemLen), e \in Endings}

TailBytes == {0, 104}

\* a (partial) signature, possibly behind a stray byte, followed by a tail
FileContents ==
    { lead \o read(_ARCHIVE_MAGIC_NUMBERS[i].magic, k) \o tail :
        lead \in {<<>>, <<0>>},
        i \in DOMAIN _ARCHIVE_MAGIC_NUMBERS,
        k \in 0.._ARCHIVE_MAGIC_NUMBERS_MAX,
        tail \in SeqsUpTo(TailBytes, MaxTailLen) }

InitDetect ==
    /\ InitCommon
    /\ fname \in Filenames
    /\ fexists \in BOOLEAN
    /\ fbytes \in IF fexists THEN FileContents ELSE {<<>>}
    /\ pathname = <<>>

Detect ==
    /\ lastOp = "none"
    /\ LET d == detect_archive_type(fname, fexists, fbytes)
       IN  /\ f_type' = d.ret
           /\ raised' = d.exc
           /\ nopen' = nopen + d.opens
           /\ nread' = nread + d.reads
    /\ lastOp' = "detect"
    /\ UNCHANGED <<hvars, fname, fexists, fbytes, ext_type, sig_type, backing, svars>>

\* a direct call of _archive_type_from_extension on the file's name
FromExtension ==
    /\ lastOp \in {"none", "from_signature"}
    /\ ext_type = Unset
    /\ ext_type' = _archive_type_from_extension(fname)
    /\ raised' = NoError
    /\ lastOp' = "from_extension"
    /\ UNCHANGED <<hvars, fname, fexists, fbytes, nopen, nread, f_type, sig_type, backing, svars>>

\* a direct call of _archive_type_from_signature on the file
FromSignature ==
    /\ lastOp \in {"none", "from_extension"}
    /\ sig_type = Unset
    /\ LET d == _archive_type_from_signature(fexists, fbytes)
       IN  /\ sig_type' = d.ret
           /\ raised' = d.exc
           /\ nopen' = nopen + d.opens
           /\ nread' = nread + d.reads
    /\ lastOp' = "from_signature"
    /\ UNCHANGED <<hvars, fname, fexists, fbytes, f_type, ext_type, backing, svars>>

\* a reader's constructor cannot return when the file does not exist; the
\* outcome flags of calls that are not made are held at FALSE
OpenArchive ==
    /\ lastOp = "none"
    /\ LET d == detect_archive_type(fname, fexists, fbytes)
           zstd == d.exc = NoError /\ open_backing(d.ret) = "ZstdTarFile"
           other == d.exc = NoError /\ open_backing(d.ret) # "ZstdTarFile"
           Outcomes(made) == IF made THEN BOOLEAN ELSE {FALSE}
       IN  \E ok \in Outcomes(other /\ fexists), zOk \in Outcomes(zstd /\ fexists) :
             \E tOk \in Outcomes(zOk), cOk \in Outcomes(zOk) :
               \E stillOpen \in Outcomes(zOk /\ ~tOk /\ ~cOk) :
                  open_archive(fname, fexists, fbytes, ok, zOk, tOk, cOk, stillOpen)
    /\ lastOp' = "open"
    /\ UNCHANGED <<nclose, fname, fexists, fbytes, svars>>

NextDetect == Detect \/ OpenArchive \/ FromExtension \/ FromSignature

SpecDetect == InitDetect /\ [][NextDetect]_vars

----------------------------------------------------------------------------
(* split_tarname *)

RECURSIVE split(_, _)
\* str.split(sep) for a one-character sep: cut at every sep, empty pieces kept
split(s, sep) ==
    LET at == {i \in 1..Len(s) : s[i] = sep}
    IN  IF at = {} THEN <<s>>
        ELSE LET i == CHOOSE k \in at : \A j \in at : k <= j
             IN  <<SubSeq(s, 1, i - 1)>> \o split(SubSeq(s, i + 1, Len(s)), sep)

RECURSIVE join(_, _)
\* sep.join(parts)
join(parts, sep) ==
    IF parts = <<>> THEN <<>>
    ELSE IF Len(parts) = 1 THEN parts[1]
    ELSE parts[1] \o <<sep>> \o join(Tail(parts), sep)

RECURSIVE rstrip(_, _)
\* str.rstrip(ch)
rstrip(s, ch) ==
    IF s # <<>> /\ s[Len(s)] = ch THEN rstrip(SubSeq(s, 1, Len(s) - 1), ch) ELSE s

\* os.path.split (posixpath): cut behind the last "/"; trailing slashes are
\* stripped from the head unless it consists of slashes only
os_path_split(p) ==
    LET at == {i \in 1..Len(p) : p[i] = "/"}
        i == IF at = {} THEN 0 ELSE CHOOSE k \in at : \A j \in at : j <= k
        head == SubSeq(p, 1, i)
        tail == SubSeq(p, i + 1, Len(p))
    IN  [head |-> IF head # <<>> /\ (\E k \in 1..Len(head) : head[k] # "/")
                  THEN rstrip(head, "/") ELSE head,
         tail |-> tail]

extension_dropfirst(extparts) == join(Tail(extparts), ".")

\* extparts[0] = ""; ext = '.'.join(extparts)
extension(extparts) == join(<<<<>>>> \o Tail(extparts), ".")

recombine_wide(fileparts) ==
    IF Len(fileparts) > 4
    THEN <<fileparts[1]>>
         \o <<join(SubSeq(fileparts, 2, Len(fileparts) - 1), "-")>>
         \o SubSeq(fileparts, Len(fileparts), Len(fileparts))
    ELSE fileparts

\* if len(fileparts) > 4: fileparts[1:-2] = ['-'.join(fileparts[1:-2])]
recombine(fileparts) ==
    IF Len(fileparts) > 4
    THEN <<fileparts[1]>>
         \o <<join(SubSeq(fileparts, 2, Len(fileparts) - 2), "-")>>
         \o SubSeq(fileparts, Len(fileparts) - 1, Len(fileparts))
    ELSE fileparts

\* the outcome: exc is AutobuildError when it raised, and then nothing is returned
split_tarname(path) ==
    LET sp == os_path_split(path)
        raw == split(sp.tail, "-")
        extparts == split(raw[Len(raw)], ".")
        cut == [raw EXCEPT ![Len(raw)] = extparts[1]]
        ext == extension(extparts)
        fileparts == recombine(cut)
    IN  IF Len(fileparts) < 4
        THEN [exc |-> AutobuildError, ok |-> FALSE, dir |-> <<>>, fileparts |-> <<>>, ext |-> <<>>]
        ELSE [exc |-> NoError, ok |-> TRUE, dir |-> sp.head, fileparts |-> fileparts, ext |-> ext]

----------------------------------------------------------------------------
(* One call of split_tarname on a pathname *)

PathChars == {"a", "-", ".", "/"}

ExamplePaths ==
    { <<"/", "s", "o", "m", "e", "/", "p", "a", "t", "h", "/", "b", "o", "o", "s", "t", "-", "1", ".", "3", "9", ".", "0", "-", "d", "a", "r", "w", "i", "n", "-", "2", "0", "1", "0", "0", "2", "2", "2", "a", ".", "t", "a", "r", ".", "b", "z", "2">>,
      <<"m", "y", "p", "k", "g", "-", "2", "0", "0", "9", "-", "0", "8", "-", "3", "0", "-", "d", "a", "r", "w", "i", "n", "-", "2", "0", "1", "0", "0", "2", "2", "2", "a", ".", "t", "a", "r", ".", "g", "z">>,
      <<"b", "a", "d", "n", "a", "m", "e", ".", "z", "i", "p">> }

Pathnames == SeqsUpTo(PathChars, MaxPathLen) \cup ExamplePaths

InitSplit ==
    /\ InitCommon
    /\ fname = <<>>
    /\ fexists = FALSE
    /\ fbytes = <<>>
    /\ pathname \in Pathnames

SplitTarname ==
    /\ lastOp = "none"
    /\ LET r == split_tarname(pathname)
       IN  /\ raised' = r.exc
           /\ sresult' = [ok |-> r.ok, dir |-> r.dir, fileparts |-> r.fileparts, ext |-> r.ext]
    /\ lastOp' = "split"
    /\ UNCHANGED <<hvars, dvars, pathname>>

NextSplit == SplitTarname

SpecSplit == InitSplit /\ [][NextSplit]_vars

----------------------------------------------------------------------------
(* Properties of ZstdTarFile, checked under SpecHandle *)

NCalls == Len(calls)

CountOp(op) == Cardinality({i \in 1..NCalls : calls[i].op = op})

\* the TarFile.__init__ call of the constructor raised
TarInitFailed ==
    /\ NCalls >= 2
    /\ calls[2] = Call("TarFile.__init__", FALSE)

\* C1: a close() of a constructed handle calls the tar close first and
\* zstd_file.close() second, the latter whether the tar close returned or
\* raised; when the tar close raised and zstd_file.close() returned, the tar
\* close's error is the one that leaves close().
C1_CloseTarThenZstdAlways ==
    (lastOp = "close") =>
        /\ NCalls >= 4
        /\ calls[NCalls - 1].op = "TarFile.close"
        /\ calls[NCalls].op = "zstd_file.close"
        /\ (~calls[NCalls - 1].ok /\ calls[NCalls].ok) => (raised = TarCloseError)
        /\ (calls[NCalls - 1].ok /\ calls[NCalls].ok) => (raised = NoError)

C1_Witness ==
    /\ lastOp = "close"
    /\ calls[NCalls - 1] = Call("TarFile.close", FALSE)
    /\ calls[NCalls] = Call("zstd_file.close", TRUE)
    /\ raised = TarCloseError
    /\ ~zstdOpen

\* C2 as stated: when the constructor opened zstd_file and the tar
\* construction failed, zstd_file is closed and the error that reaches the
\* caller is the tar construction error.
C2_Original ==
    (lastOp = "init" /\ TarInitFailed) =>
        /\ raised = TarInitError
        /\ ~zstdOpen

\* C2 amended: when the constructor opened zstd_file and the tar construction
\* failed, zstd_file.close() is called before an error reaches the caller and
\* the constructor does end with an error; that error is the tar construction
\* error, with zstd_file closed, when zstd_file.close() returned, and it is
\* the error of zstd_file.close() when that call itself raised.
C2_CloseOnFailedInit ==
    (lastOp = "init" /\ TarInitFailed) =>
        /\ hstate = "failed"
        /\ NCalls = 3
        /\ calls[3].op = "zstd_file.close"
        /\ calls[3].ok => (raised = TarInitError /\ ~zstdOpen)
        /\ ~calls[3].ok => (raised = ZstdCloseError)

C2_Witness ==
    /\ lastOp = "init"
    /\ TarInitFailed
    /\ calls[3] = Call("zstd_file.close", TRUE)
    /\ raised = TarInitError
    /\ ~zstdOpen

\* C3 as stated: when both the tar close and zstd_file.close() fail in one
\* close(), the tar close's error is the one surfaced and zstd_file.close()
\* has been attempted.
C3_Original ==
    (lastOp = "close" /\ ~calls[NCalls - 1].ok /\ ~calls[NCalls].ok) =>
        /\ raised = TarCloseError
        /\ calls[NCalls].op = "zstd_file.close"

\* C3 amended: when both the tar close and zstd_file.close() fail in one
\* close(), zstd_file.close() has been attempted after the tar close and the
\* error surfaced is the one of the second close, zstd_file.close().
C3_BothFailSecondErrorSurfaces ==
    (lastOp = "close" /\ ~calls[NCalls - 1].ok /\ ~calls[NCalls].ok) =>
        /\ calls[NCalls - 1].op = "TarFile.close"
        /\ calls[NCalls].op = "zstd_file.close"
        /\ raised = ZstdCloseError

C3_Witness ==
    /\ lastOp = "close"
    /\ calls[NCalls - 1] = Call("TarFile.close", FALSE)
    /\ calls[NCalls] = Call("zstd_file.close", FALSE)
    /\ raised # NoError

\* C4 as stated: a second close() on a handle whose first close() returned
\* does not raise and makes no further release attempt: neither the tar close
\* nor zstd_file.close() is called a second time.
C4_Original ==
    (lastOp = "close" /\ nclose >= 2 /\ calls[3].ok /\ calls[4].ok) =>
        /\ CountOp("TarFile.close") = 1
        /\ CountOp("zstd_file.close") = 1
        /\ raised = NoError

\* C4 amended: ZstdTarFile.close() keeps no closed flag: every close() of a
\* handle, also one after a close() that returned, calls the tar close and
\* then zstd_file.close() once more, and it raises exactly when one of these
\* two calls raises. A close() after one that returned does not raise: both
\* calls then reach closed objects and return without effect.
C4_EveryCloseCallsBoth ==
    (lastOp = "close") =>
        /\ NCalls = 2 + 2 * nclose
        /\ \A k \in 1..nclose :
              /\ calls[2 * k + 1].op = "TarFile.close"
              /\ calls[2 * k + 2].op = "zstd_file.close"
        /\ (raised = NoError) <=> (calls[NCalls - 1].ok /\ calls[NCalls].ok)
        /\ (nclose >= 2 /\ calls[3].ok /\ calls[4].ok) => (raised = NoError)

C4_Witness ==
    /\ lastOp = "close"
    /\ nclose = 2
    /\ calls[3] = Call("TarFile.close", TRUE)
    /\ calls[4] = Call("zstd_file.close", TRUE)
    /\ NCalls = 6
    /\ calls[5] = Call("TarFile.close", TRUE)
    /\ calls[6] = Call("zstd_file.close", TRUE)
    /\ raised = NoError
    /\ ~zstdOpen

----------------------------------------------------------------------------
(* Properties of format detection and open_archive, checked under SpecDetect *)

DotTarGz == <<".", "t", "a", "r", ".", "g", "z">>
DotTarBz2 == <<".", "t", "a", "r", ".", "b", "z", "2">>
DotTarZst == <<".", "t", "a", "r", ".", "z", "s", "t">>
DotZip == <<".", "z", "i", "p">>

\* s ends with the characters of e
EndsIn(s, e) ==
    /\ Len(s) >= Len(e)
    /\ \A k \in 1..Len(e) : s[Len(s) - Len(e) + k] = e[k]

\* the bytes of p are the first bytes of s
IsPrefix(p, s) ==
    /\ Len(p) <= Len(s)
    /\ \A k \in 1..Len(p) : s[k] = p[k]

RecognizedSuffix ==
    EndsIn(fname, DotTarGz) \/ EndsIn(fname, DotTarBz2) \/ EndsIn(fname, DotTarZst) \/ EndsIn(fname, DotZip)

\* C5: for a filename ending in .tar.gz, .tar.bz2, .tar.zst or .zip,
\* detect_archive_type returns gz, bz2, zst or zip respectively, without
\* opening or reading the file, whatever its bytes are and whether or not it
\* exists.
C5_SuffixWinsWithoutReading ==
    (lastOp = "detect" /\ RecognizedSuffix) =>
        /\ raised = NoError
        /\ nopen = 0
        /\ nread = 0
        /\ EndsIn(fname, DotTarGz) => f_type = GZ
        /\ EndsIn(fname, DotTarBz2) => f_type = BZ2
        /\ EndsIn(fname, DotTarZst) => f_type = ZST
        /\ EndsIn(fname, DotZip) => f_type = ZIP

\* a .zip name on a file that starts with the gzip signature
C5_Witness ==
    /\ lastOp = "detect"
    /\ EndsIn(fname, DotZip)
    /\ fexists
    /\ IsPrefix(<<31, 139, 8>>, fbytes)
    /\ f_type = ZIP
    /\ nopen = 0

\* C6: for a readable file whose name has no recognized suffix,
\* detect_archive_type opens it once, reads its first 4 bytes (all of it when
\* it is shorter) and returns the type of the first table entry whose
\* signature is a prefix of the bytes read, None when there is no such entry.
C6_SignatureFallback ==
    (lastOp = "detect" /\ fexists /\ ~RecognizedSuffix) =>
        LET T == _ARCHIVE_MAGIC_NUMBERS
            head == SubSeq(fbytes, 1, nread)
            first == {i \in DOMAIN T : IsPrefix(T[i].magic, head)
                                       /\ \A j \in 1..(i - 1) : ~IsPrefix(T[j].magic, head)}
        IN  /\ raised = NoError
            /\ nopen = 1
            /\ nread <= 4
            /\ nread = Len(fbytes) \/ nread = 4
            /\ \A i \in first : f_type = T[i].f_type
            /\ (first = {}) => (f_type = None)
            /\ (Len(fbytes) < 3) => (f_type = None)

\* a file longer than the longest signature that starts with the gzip one
C6_Witness ==
    /\ lastOp = "detect"
    /\ ~RecognizedSuffix
    /\ fexists
    /\ Len(fbytes) > 4
    /\ nread = 4
    /\ IsPrefix(<<31, 139, 8>>, fbytes)
    /\ f_type = GZ

\* C7 as stated: whenever _archive_type_from_extension and
\* _archive_type_from_signature both return a type for a file, they return
\* the same type.
C7_Original ==
    (ext_type \notin {Unset, None} /\ sig_type \notin {Unset, None}) => (ext_type = sig_type)

\* the signature that belongs to the format a recognized suffix names
SignatureOfSuffix ==
    << [suffix |-> DotTarGz, magic |-> <<31, 139, 8>>],
       [suffix |-> DotTarBz2, magic |-> <<66, 90, 104>>],
       [suffix |-> DotTarZst, magic |-> <<40, 181, 47, 253>>],
       [suffix |-> DotZip, magic |-> <<80, 75, 3, 4>>] >>

ContentFitsSuffix ==
    \E i \in DOMAIN SignatureOfSuffix :
        /\ EndsIn(fname, SignatureOfSuffix[i].suffix)
        /\ IsPrefix(SignatureOfSuffix[i].magic, fbytes)

\* C7 amended: the two detectors agree on every file whose content fits its
\* name: when the name ends in a recognized suffix and the file starts with
\* the signature of the format that suffix names, both return a type and the
\* two types are equal. On other files they may return different types.
C7_AgreeWhenContentFitsSuffix ==
    (ext_type # Unset /\ sig_type # Unset /\ fexists /\ ContentFitsSuffix) =>
        /\ ext_type # None
        /\ sig_type # None
        /\ ext_type = sig_type

C7_Witness ==
    /\ ext_type = ZST
    /\ sig_type = ZST
    /\ EndsIn(fname, DotTarZst)
    /\ IsPrefix(<<40, 181, 47, 253>>, fbytes)
    /\ nopen = 1

\* C8: open_archive picks the reader from the detected type alone: zst opens
\* a ZstdTarFile in read mode (ZstdFile, then the tar reader around it), zip
\* opens a ZipFile, and gz, bz2 and None open tarfile.open on the path; it
\* raises before trying a reader only when detection itself raised.
C8_BackingFollowsDetectedType ==
    (lastOp = "open") =>
        /\ (backing = None) <=> (~RecognizedSuffix /\ ~fexists)
        /\ (backing = None) => (calls = <<>> /\ raised = IOError)
        /\ (backing # None /\ f_type = ZST) =>
              /\ backing = "ZstdTarFile"
              /\ zstdoption = None
              /\ calls[1].op = "ZstdFile"
              /\ calls[1].ok => calls[2].op = "TarFile.__init__"
        /\ (backing # None /\ f_type = ZIP) =>
              /\ backing = "ZipFile"
              /\ NCalls = 1
              /\ calls[1].op = "ZipFile"
        /\ (backing # None /\ f_type \in {GZ, BZ2, None}) =>
              /\ backing = "tarfile.open"
              /\ NCalls = 1
              /\ calls[1].op = "tarfile.open"
        /\ (f_type = None /\ fexists) => (NCalls = 1 /\ calls[1].op = "tarfile.open")

\* an existing file of unrecognized name and content goes to tarfile.open
C8_Witness ==
    /\ lastOp = "open"
    /\ fexists
    /\ ~RecognizedSuffix
    /\ f_type = None
    /\ backing = "tarfile.open"
    /\ calls = <<Call("tarfile.open", TRUE)>>

----------------------------------------------------------------------------
(* Properties of split_tarname, checked under SpecSplit *)

\* the part of pathname behind its last "/"
BareFilename ==
    LET at == {i \in 1..Len(pathname) : pathname[i] = "/"}
    IN  IF at = {} THEN pathname
        ELSE SubSeq(pathname, (CHOOSE k \in at : \A j \in at : j <= k) + 1, Len(pathname))

Positions(s, ch) == {i \in 1..Len(s) : s[i] = ch}

Lowest(S) == CHOOSE k \in S : \A j \in S : k <= j
Highest(S) == CHOOSE k \in S : \A j \in S : j <= k

\* s from position m up to, not including, position n
Between(s, m, n) == [k \in 1..(n - m) |-> s[m + k - 1]]

\* where the extension starts: the first "." behind the last "-", or the end
ExtStart(f) ==
    LET D == Positions(f, "-")
        dots == {i \in Positions(f, ".") : i > Highest(D)}
    IN  IF dots = {} THEN Len(f) + 1 ELSE Lowest(dots)

\* C9: split_tarname raises AutobuildError exactly when the bare filename
\* holds fewer than 3 dashes, that is fewer than 4 dash-separated tokens, and
\* otherwise returns exactly 4 components: what precedes the first dash, what
\* lies between the first dash and the second-to-last one, what lies between
\* the last two dashes, and what follows the last dash up to its first ".".
C9_FourComponentsOrError ==
    (lastOp = "split") =>
        LET f == BareFilename
            D == Positions(f, "-")
        IN  /\ raised \in {NoError, AutobuildError}
            /\ (raised = AutobuildError) <=> (Cardinality(D) < 3)
            /\ sresult.ok <=> (raised = NoError)
            /\ sresult.ok =>
                  LET first == Lowest(D)
                      last == Highest(D)
                      prev == Highest(D \ {last})
                  IN  /\ Len(sresult.fileparts) = 4
                      /\ sresult.fileparts[1] = Between(f, 1, first)
                      /\ sresult.fileparts[2] = Between(f, first + 1, prev)
                      /\ sresult.fileparts[3] = Between(f, prev + 1, last)
                      /\ sresult.fileparts[4] = Between(f, last + 1, ExtStart(f))

\* more than 4 raw tokens, recombined into 4 components
C9_Witness ==
    /\ lastOp = "split"
    /\ Cardinality(Positions(BareFilename, "-")) = 5
    /\ sresult.ok
    /\ Len(sresult.fileparts) = 4
    /\ Cardinality(Positions(sresult.fileparts[2], "-")) = 2
    /\ sresult.fileparts[1] # <<>>

\* C10 as stated: every successful split_tarname call returns an extension
\* that starts with ".".
C10_Original ==
    (lastOp = "split" /\ sresult.ok) =>
        /\ sresult.ext # <<>>
        /\ sresult.ext[1] = "."

\* C10 amended: a successful split_tarname call returns the bare filename
\* from the first "." of its last dash-separated token on, which starts with
\* ".", when that token contains a "."; when it contains none, the extension
\* returned is the empty string.
C10_ExtensionDotOrEmpty ==
    (lastOp = "split" /\ sresult.ok) =>
        LET f == BareFilename
        IN  /\ (ExtStart(f) <= Len(f)) =>
                  /\ sresult.ext # <<>>
                  /\ sresult.ext[1] = "."
                  /\ sresult.ext = Between(f, ExtStart(f), Len(f) + 1)
            /\ (ExtStart(f) > Len(f)) => (sresult.ext = <<>>)

C10_Witness ==
    /\ lastOp = "split"
    /\ sresult.ok
    /\ Len(sresult.ext) >= 4
    /\ sresult.ext[1] = "."
    /\ Cardinality(Positions(sresult.ext, ".")) = 2

----------------------------------------------------------------------------
(* Self-consistency of the signature table, checked under SpecDetect *)

\* the table entries whose signature the byte sequence b starts with
MatchingEntries(b) ==
    {i \in DOMAIN _ARCHIVE_MAGIC_NUMBERS : IsPrefix(_ARCHIVE_MAGIC_NUMBERS[i].magic, b)}

\* C11: no signature of _ARCHIVE_MAGIC_NUMBERS is a prefix of another one, so
\* at most one entry matches the leading bytes of any file, and what
\* _archive_type_from_signature returns is the type of every entry that
\* matches, whichever order the table is iterated in.
C11_SignaturesPrefixFree ==
    /\ \A i, j \in DOMAIN _ARCHIVE_MAGIC_NUMBERS :
          (i # j) => ~IsPrefix(_ARCHIVE_MAGIC_NUMBERS[i].magic, _ARCHIVE_MAGIC_NUMBERS[j].magic)
    /\ Cardinality(MatchingEntries(fbytes)) <= 1
    /\ (sig_type # Unset /\ fexists) =>
          /\ \A i \in MatchingEntries(fbytes) : sig_type = _ARCHIVE_MAGIC_NUMBERS[i].f_type
          /\ (MatchingEntries(fbytes) = {}) => (sig_type = None)

\* a file that starts with the zip signature, matched by the zip entry alone
C11_Witness ==
    /\ lastOp = "from_signature"
    /\ fexists
    /\ IsPrefix(<<80, 75, 3, 4>>, fbytes)
    /\ Len(fbytes) > 4
    /\ Cardinality(MatchingEntries(fbytes)) = 1
    /\ sig_type = ZIP

====
